---- MODULE Spec2Model ----
(***************************************************************************)
(* davenport: a container of type-erased work spaces (Workspace) and the   *)
(* thread-local access function with_thread_local_workspace.               *)
(*                                                                         *)
(* Spec   : one Workspace value driven directly through its methods, as    *)
(*          tests/unit.rs does with `let mut ws = Workspace::default()`.   *)
(* SpecUnwind : the same methods, with create closures that may unwind.     *)
(* SpecTL : the thread-local RefCell<Workspace> of                         *)
(*          define_thread_local_workspace!, one instance per thread,       *)
(*          driven through with_thread_local_workspace.                    *)
(***************************************************************************)
EXTENDS Integers, Sequences, FiniteSets

\* ------------------------------------------------------------------ bounds
\* Payloads are usize values 0..MaxVal.
MaxVal == 1

\* Activations of with_thread_local_workspace stacked on one thread.
MaxDepth == 2

\* A create closure may unwind only if it is among the first MaxCreateUnwinds
\* create invocations on the store.
MaxCreateUnwinds == 1

\* ------------------------------------------------------------ value domain
\* The concrete types put in a directly driven Workspace.
Types == {"A", "B", "C"}

\* The types requested through the thread-local handle.
TLTypes == {"A", "B"}

Threads == {"t1", "t2"}

Vals == 0..MaxVal

\* Option::None of a value / of an index.
Absent == -1

NoIdx == -1

\* #[derive(Default)] struct A(usize): the default payload.
Default(W) == 0

\* Box<dyn Any> holding a value of concrete type W.
Box(W, v) == [type |-> W, val |-> v]

\* The type-identity test ws.is::<W>(): equality of TypeId, whatever the layout.
IsAnyType(ws, W) == TRUE

Is(ws, W) == ws.type = W

\* Vec indexing with the code's 0-based indices.
At(s, i) == s[i + 1]

VARIABLES
    workspaces,   \* Workspace.workspaces of the directly driven store
    ret,          \* what the last method call on it did and returned
    ref,          \* index designated by the live &mut W of the last call, or NoIdx
    written,      \* per type, the value last written through a reference
    createCalls,  \* per type, how many times a create closure was invoked
    tls,          \* per thread, the workspaces of its thread-local Workspace
    borrow,       \* per thread, the RefCell's borrow state
    frames,       \* per thread, the activations of with_thread_local_workspace:
                  \* the type, the index of its entry, whether the call created it
    pc,           \* per thread, "run" or "unwind" (a panic is propagating)
    ev,           \* the last step of a thread
    result,       \* per thread, what its last outermost call gave its caller
    left          \* per thread and type, the value last written by a body

storeVars == <<workspaces, ret, ref, written, createCalls>>

tlVars == <<tls, borrow, frames, pc, ev, result, left>>

vars == <<workspaces, ret, ref, written, createCalls, tls, borrow, frames, pc, ev, result, left>>

\* ------------------------------------------------- Workspace (src/lib.rs)

\* iter().rposition(pred): the greatest index whose entry satisfies pred.
RPositionTailOnly(s, W) ==
    IF Len(s) > 0 /\ Is(At(s, Len(s) - 1), W) THEN Len(s) - 1 ELSE NoIdx

RPosition(s, W) ==
    LET hits == {i \in 0..(Len(s) - 1) : Is(At(s, i), W)}
    IN  IF hits = {} THEN NoIdx ELSE CHOOSE i \in hits : \A j \in hits : j <= i

\* Vec::push.
Push(s, e) == Append(s, e)

\* slice::swap.
SwapOverwrite(s, i, j) ==
    [k \in 1..Len(s) |-> IF k = j + 1 THEN s[i + 1] ELSE s[k]]

Swap(s, i, j) ==
    [k \in 1..Len(s) |->
        IF k = i + 1 THEN s[j + 1] ELSE IF k = j + 1 THEN s[i + 1] ELSE s[k]]

\* Any::downcast_mut::<W>() on the entry: Some iff the entry holds a W.
Downcast(e, W) == IF e.type = W THEN e.val ELSE Absent

\* The outcome of a create closure that unwinds instead of returning a value.
Panics == -2

\* Workspace::get_or_insert_with::<W>(create), create returning v or unwinding.
\* called: whether create ran; len: the length `last` is computed from; idx,
\* last: the swapped indices, last being the one the returned &mut W
\* designates; fault: "create" when create unwound, "downcast" when the
\* expect() on the downcast panics; ok: a &mut W is returned.
GetOrInsertWithOffByOne(s, W, v) ==
    LET existing_ws_idx == RPosition(s, W)
        called == existing_ws_idx = NoIdx
        s1   == IF existing_ws_idx = NoIdx THEN Push(s, Box(W, v)) ELSE s
        idx  == IF existing_ws_idx = NoIdx THEN (IF Len(s) = 0 THEN 0 ELSE Len(s) - 1) ELSE existing_ws_idx
        last == Len(s1) - 1
        s2   == Swap(s1, idx, last)
    IN  IF called /\ v = Panics
        THEN [workspaces |-> s, len |-> Len(s), idx |-> NoIdx, last |-> NoIdx,
              called |-> TRUE, fault |-> "create", ok |-> FALSE]
        ELSE [workspaces |-> s2, len |-> Len(s1), idx |-> idx, last |-> last,
              called |-> called,
              fault |-> IF Downcast(At(s2, last), W) # Absent THEN "none" ELSE "downcast",
              ok |-> Downcast(At(s2, last), W) # Absent]

GetOrInsertWithEager(s, W, v) ==
    LET existing_ws_idx == RPosition(s, W)
        called == TRUE
        s1   == IF existing_ws_idx = NoIdx THEN Push(s, Box(W, v)) ELSE s
        idx  == IF existing_ws_idx = NoIdx THEN Len(s) ELSE existing_ws_idx
        last == Len(s1) - 1
        s2   == Swap(s1, idx, last)
    IN  IF called /\ v = Panics
        THEN [workspaces |-> s, len |-> Len(s), idx |-> NoIdx, last |-> NoIdx,
              called |-> TRUE, fault |-> "create", ok |-> FALSE]
        ELSE [workspaces |-> s2, len |-> Len(s1), idx |-> idx, last |-> last,
              called |-> called,
              fault |-> IF Downcast(At(s2, last), W) # Absent THEN "none" ELSE "downcast",
              ok |-> Downcast(At(s2, last), W) # Absent]

GetOrInsertWithRecreate(s, W, v) ==
    LET existing_ws_idx == RPosition(s, W)
        called == TRUE
        s1   == IF existing_ws_idx = NoIdx THEN Push(s, Box(W, v))
                ELSE [s EXCEPT ![existing_ws_idx + 1] = Box(W, v)]
        idx  == IF existing_ws_idx = NoIdx THEN Len(s) ELSE existing_ws_idx
        last == Len(s1) - 1
        s2   == Swap(s1, idx, last)
    IN  IF called /\ v = Panics
        THEN [workspaces |-> s, len |-> Len(s), idx |-> NoIdx, last |-> NoIdx,
              called |-> TRUE, fault |-> "create", ok |-> FALSE]
        ELSE [workspaces |-> s2, len |-> Len(s1), idx |-> idx, last |-> last,
              called |-> called,
              fault |-> IF Downcast(At(s2, last), W) # Absent THEN "none" ELSE "downcast",
              ok |-> Downcast(At(s2, last), W) # Absent]

GetOrInsertWithRotate(s, W, v) ==
    LET existing_ws_idx == RPosition(s, W)
        called == existing_ws_idx = NoIdx
        s1   == IF existing_ws_idx = NoIdx THEN Push(s, Box(W, v)) ELSE s
        idx  == IF existing_ws_idx = NoIdx THEN Len(s) ELSE existing_ws_idx
        last == Len(s1) - 1
        s2   == Append(SubSeq(s1, 1, idx) \o SubSeq(s1, idx + 2, Len(s1)), s1[idx + 1])
    IN  IF called /\ v = Panics
        THEN [workspaces |-> s, len |-> Len(s), idx |-> NoIdx, last |-> NoIdx,
              called |-> TRUE, fault |-> "create", ok |-> FALSE]
        ELSE [workspaces |-> s2, len |-> Len(s1), idx |-> idx, last |-> last,
              called |-> called,
              fault |-> IF Downcast(At(s2, last), W) # Absent THEN "none" ELSE "downcast",
              ok |-> Downcast(At(s2, last), W) # Absent]

GetOrInsertWithStaleLast(s, W, v) ==
    LET existing_ws_idx == RPosition(s, W)
        called == existing_ws_idx = NoIdx
        s1   == IF existing_ws_idx = NoIdx THEN Push(s, Box(W, v)) ELSE s
        idx  == IF existing_ws_idx = NoIdx THEN Len(s) ELSE existing_ws_idx
        last == Len(s) - 1
        s2   == IF last < 0 THEN s1 ELSE Swap(s1, idx, last)
    IN  IF called /\ v = Panics
        THEN [workspaces |-> s, len |-> Len(s), idx |-> NoIdx, last |-> NoIdx,
              called |-> TRUE, fault |-> "create", ok |-> FALSE]
        ELSE [workspaces |-> s2, len |-> Len(s1), idx |-> idx, last |-> last,
              called |-> called,
              fault |-> IF last >= 0 /\ Downcast(At(s2, last), W) # Absent
                        THEN "none" ELSE "downcast",
              ok |-> last >= 0 /\ Downcast(At(s2, last), W) # Absent]

GetOrInsertWithPushFirst(s, W, v) ==
    LET existing_ws_idx == RPosition(s, W)
        called == existing_ws_idx = NoIdx
        s1   == IF existing_ws_idx = NoIdx THEN Push(s, Box(W, v)) ELSE s
        idx  == IF existing_ws_idx = NoIdx THEN Len(s) ELSE existing_ws_idx
        last == Len(s1) - 1
        s2   == Swap(s1, idx, last)
    IN  IF called /\ v = Panics
        THEN [workspaces |-> Push(s, Box(W, Default(W))), len |-> Len(s), idx |-> NoIdx,
              last |-> NoIdx, called |-> TRUE, fault |-> "create", ok |-> FALSE]
        ELSE [workspaces |-> s2, len |-> Len(s1), idx |-> idx, last |-> last,
              called |-> called,
              fault |-> IF Downcast(At(s2, last), W) # Absent THEN "none" ELSE "downcast",
              ok |-> Downcast(At(s2, last), W) # Absent]

GetOrInsertWithNoSwap(s, W, v) ==
    LET existing_ws_idx == RPosition(s, W)
        called == existing_ws_idx = NoIdx
        s1   == IF existing_ws_idx = NoIdx THEN Push(s, Box(W, v)) ELSE s
        idx  == IF existing_ws_idx = NoIdx THEN Len(s) ELSE existing_ws_idx
        last == Len(s1) - 1
        s2   == s1
    IN  IF called /\ v = Panics
        THEN [workspaces |-> s, len |-> Len(s), idx |-> NoIdx, last |-> NoIdx,
              called |-> TRUE, fault |-> "create", ok |-> FALSE]
        ELSE [workspaces |-> s2, len |-> Len(s1), idx |-> idx, last |-> idx,
              called |-> called,
              fault |-> IF Downcast(At(s2, idx), W) # Absent THEN "none" ELSE "downcast",
              ok |-> Downcast(At(s2, idx), W) # Absent]

GetOrInsertWith(s, W, v) ==
    LET existing_ws_idx == RPosition(s, W)
        called == existing_ws_idx = NoIdx
        s1   == IF existing_ws_idx = NoIdx THEN Push(s, Box(W, v)) ELSE s
        idx  == IF existing_ws_idx = NoIdx THEN Len(s) ELSE existing_ws_idx
        last == Len(s1) - 1
        s2   == Swap(s1, idx, last)
    IN  IF called /\ v = Panics
        THEN [workspaces |-> s, len |-> Len(s), idx |-> NoIdx, last |-> NoIdx,
              called |-> TRUE, fault |-> "create", ok |-> FALSE]
        ELSE [workspaces |-> s2, len |-> Len(s1), idx |-> idx, last |-> last,
              called |-> called,
              fault |-> IF Downcast(At(s2, last), W) # Absent THEN "none" ELSE "downcast",
              ok |-> Downcast(At(s2, last), W) # Absent]

\* The record of a call: the method, its type parameter, its value argument,
\* the value read through what it returned (Absent for None), whether a create
\* closure ran, and whether it panicked.
Ret(op, W, arg, val, called, panicked) ==
    [op |-> op, type |-> W, arg |-> arg, val |-> val, called |-> called,
     panicked |-> panicked]

\* The create invocations made on the store so far.
CreateCallsTotal == createCalls["A"] + createCalls["B"] + createCalls["C"]

\* A call ws.get_or_insert_with(|| W(v)) or ws.get_or_default::<W>().
CallGetOrInsertWith(op, W, v) ==
    LET r == GetOrInsertWith(workspaces, W, v)
    IN  /\ workspaces' = r.workspaces
        /\ ret' = Ret(op, W, v,
                      IF r.ok THEN Downcast(At(r.workspaces, r.last), W) ELSE Absent,
                      r.called, ~r.ok)
        /\ ref' = IF r.ok THEN r.last ELSE NoIdx
        /\ createCalls' = [createCalls EXCEPT ![W] = @ + (IF r.called THEN 1 ELSE 0)]
        /\ UNCHANGED written

GetOrInsertWithCall ==
    \E W \in Types, v \in Vals :
        /\ CallGetOrInsertWith("get_or_insert_with", W, v)
        /\ UNCHANGED tlVars

\* A call ws.get_or_insert_with(create) whose create unwinds if it is run.
GetOrInsertWithUnwinding ==
    \E W \in Types :
        /\ CreateCallsTotal < MaxCreateUnwinds
        /\ CallGetOrInsertWith("get_or_insert_with", W, Panics)
        /\ UNCHANGED tlVars

\* Workspace::get_or_default::<W>().
GetOrDefault ==
    \E W \in Types :
        /\ CallGetOrInsertWith("get_or_default", W, Default(W))
        /\ UNCHANGED tlVars

\* Workspace::try_get::<W>().
TryGetPromoting ==
    \E W \in Types :
        LET i == RPosition(workspaces, W)
        IN  /\ ret' = Ret("try_get", W, Absent,
                          IF i = NoIdx THEN Absent ELSE Downcast(At(workspaces, i), W),
                          FALSE, FALSE)
            /\ ref' = NoIdx
            /\ workspaces' = IF i = NoIdx THEN workspaces
                             ELSE Swap(workspaces, i, Len(workspaces) - 1)
            /\ UNCHANGED <<written, createCalls>>
            /\ UNCHANGED tlVars

TryGet ==
    \E W \in Types :
        LET i == RPosition(workspaces, W)
        IN  /\ ret' = Ret("try_get", W, Absent,
                          IF i = NoIdx THEN Absent ELSE Downcast(At(workspaces, i), W),
                          FALSE, FALSE)
            /\ ref' = NoIdx
            /\ UNCHANGED <<workspaces, written, createCalls>>
            /\ UNCHANGED tlVars

\* Workspace::try_get_mut::<W>().
TryGetMut ==
    \E W \in Types :
        LET i == RPosition(workspaces, W)
        IN  /\ ret' = Ret("try_get_mut", W, Absent,
                          IF i = NoIdx THEN Absent ELSE Downcast(At(workspaces, i), W),
                          FALSE, FALSE)
            /\ ref' = i
            /\ UNCHANGED <<workspaces, written, createCalls>>
            /\ UNCHANGED tlVars

\* Workspace::try_insert::<W>(W(v)).
TryInsert ==
    \E W \in Types, v \in Vals :
        LET i == RPosition(workspaces, W)
        IN  /\ workspaces' = IF i = NoIdx THEN Push(workspaces, Box(W, v)) ELSE workspaces
            /\ ret' = Ret("try_insert", W, v, IF i = NoIdx THEN v ELSE Absent, FALSE, FALSE)
            /\ ref' = IF i = NoIdx THEN Len(workspaces) ELSE NoIdx
            /\ UNCHANGED <<written, createCalls>>
            /\ UNCHANGED tlVars

\* The caller assigns through the &mut W it holds (a_ws.0 = 2).
WriteRef ==
    \E v \in Vals :
        /\ ref # NoIdx
        /\ workspaces' = [workspaces EXCEPT ![ref + 1].val = v]
        /\ written' = [written EXCEPT ![At(workspaces, ref).type] = v]
        /\ ret' = Ret("write", At(workspaces, ref).type, v, v, FALSE, FALSE)
        /\ UNCHANGED <<ref, createCalls>>
        /\ UNCHANGED tlVars

\* ------------------------------------------------------------------ specs
Init ==
    /\ workspaces = <<>>
    /\ ret = Ret("new", "A", Absent, Absent, FALSE, FALSE)
    /\ ref = NoIdx
    /\ written = [W \in Types |-> Absent]
    /\ createCalls = [W \in Types |-> 0]
    /\ tls = [t \in Threads |-> <<>>]
    /\ borrow = [t \in Threads |-> "Free"]
    /\ frames = [t \in Threads |-> <<>>]
    /\ pc = [t \in Threads |-> "run"]
    /\ ev = [t |-> "t1", kind |-> "init", type |-> "A", val |-> Absent]
    /\ result = [t \in Threads |-> [kind |-> "none", val |-> Absent]]
    /\ left = [t \in Threads |-> [W \in TLTypes |-> Absent]]

Next ==
    \/ GetOrInsertWithCall
    \/ GetOrDefault
    \/ TryGet
    \/ TryGetMut
    \/ TryInsert
    \/ WriteRef

Spec == Init /\ [][Next]_vars

\* The methods of Workspace with create closures that may unwind; the payloads
\* are those given by create and try_insert.
NextUnwind ==
    \/ GetOrInsertWithCall
    \/ GetOrInsertWithUnwinding
    \/ GetOrDefault
    \/ TryGet
    \/ TryGetMut
    \/ TryInsert

SpecUnwind == Init /\ [][NextUnwind]_vars

\* ------------------------- with_thread_local_workspace (src/lib.rs 224-266)

\* thread_local!: LocalKey::with resolves the handle to the calling thread's
\* own RefCell<Workspace>.
InstanceShared(t) == "t1"

Instance(t) == t

\* RefCell::borrow_mut succeeds iff the cell is not borrowed; it panics otherwise.
BorrowMutUnchecked(flag) == TRUE

BorrowMut(flag) == flag = "Free"

\* Dropping the RefMut, on return and on unwinding alike, ends the borrow.
DropRefMutLeak(flag) == flag

DropRefMut(flag) == "Free"

Event(t, kind, W, v) == [t |-> t, kind |-> kind, type |-> W, val |-> v]

Top(t) == frames[t][Len(frames[t])]

Pop(t) == SubSeq(frames[t], 1, Len(frames[t]) - 1)

\* with_thread_local_workspace::<W, T>(&WORKSPACE, f) up to the call of f:
\* borrow_mut, then get_or_default::<W>(), then f gets the &mut W.
WithThreadLocalWorkspaceLookupFirst(t) ==
    \E W \in TLTypes :
        LET c == Instance(t)
            r == GetOrInsertWith(tls[c], W, Default(W))
        IN  /\ pc[t] = "run"
            /\ Len(frames[t]) < MaxDepth
            /\ tls' = [tls EXCEPT ![c] = r.workspaces]
            /\ IF ~BorrowMut(borrow[c])
               THEN /\ pc' = [pc EXCEPT ![t] = "unwind"]
                    /\ ev' = Event(t, "rejected", W, Absent)
                    /\ UNCHANGED <<borrow, frames>>
               ELSE /\ borrow' = [borrow EXCEPT ![c] = "Held"]
                    /\ frames' = [frames EXCEPT ![t] =
                                     Append(@, [type |-> W, idx |-> r.last, fresh |-> r.called])]
                    /\ ev' = Event(t, "entered", W, Downcast(At(r.workspaces, r.last), W))
                    /\ UNCHANGED pc
            /\ UNCHANGED <<result, left>>
            /\ UNCHANGED storeVars

WithThreadLocalWorkspace(t) ==
    \E W \in TLTypes :
        LET c == Instance(t)
            r == GetOrInsertWith(tls[c], W, Default(W))
        IN  /\ pc[t] = "run"
            /\ Len(frames[t]) < MaxDepth
            /\ IF ~BorrowMut(borrow[c])
               THEN /\ pc' = [pc EXCEPT ![t] = "unwind"]
                    /\ ev' = Event(t, "rejected", W, Absent)
                    /\ UNCHANGED <<tls, borrow, frames>>
               ELSE IF r.ok
               THEN /\ borrow' = [borrow EXCEPT ![c] = "Held"]
                    /\ tls' = [tls EXCEPT ![c] = r.workspaces]
                    /\ frames' = [frames EXCEPT ![t] =
                                     Append(@, [type |-> W, idx |-> r.last, fresh |-> r.called])]
                    /\ ev' = Event(t, "entered", W, Downcast(At(r.workspaces, r.last), W))
                    /\ UNCHANGED pc
               ELSE /\ tls' = [tls EXCEPT ![c] = r.workspaces]
                    /\ borrow' = [borrow EXCEPT ![c] = DropRefMut("Held")]
                    /\ pc' = [pc EXCEPT ![t] = "unwind"]
                    /\ ev' = Event(t, "internal_error", W, Absent)
                    /\ UNCHANGED frames
            /\ UNCHANGED <<result, left>>
            /\ UNCHANGED storeVars

\* The body f assigns through its &mut W.
BodyWrite(t) ==
    \E v \in Vals :
        LET c == Instance(t)
        IN  /\ pc[t] = "run"
            /\ frames[t] # <<>>
            /\ tls' = [tls EXCEPT ![c][Top(t).idx + 1].val = v]
            /\ left' = [left EXCEPT ![t][Top(t).type] = v]
            /\ ev' = Event(t, "write", Top(t).type, v)
            /\ UNCHANGED <<borrow, frames, pc, result>>
            /\ UNCHANGED storeVars

\* The body f returns r: the RefMut is dropped and r is the call's value.
BodyReturn(t) ==
    \E r \in Vals :
        /\ pc[t] = "run"
        /\ frames[t] # <<>>
        /\ frames' = [frames EXCEPT ![t] = Pop(t)]
        /\ borrow' = [borrow EXCEPT ![Instance(t)] = DropRefMut(@)]
        /\ result' = [result EXCEPT ![t] = [kind |-> "returned", val |-> r]]
        /\ ev' = Event(t, "returned", Top(t).type, r)
        /\ UNCHANGED <<tls, pc, left>>
        /\ UNCHANGED storeVars

\* The body f panics by itself.
BodyPanic(t) ==
    /\ pc[t] = "run"
    /\ frames[t] # <<>>
    /\ pc' = [pc EXCEPT ![t] = "unwind"]
    /\ ev' = Event(t, "body_panic", Top(t).type, Absent)
    /\ UNCHANGED <<tls, borrow, frames, result, left>>
    /\ UNCHANGED storeVars

\* The body f catches a panic raised below it and goes on.
BodyCatch(t) ==
    /\ pc[t] = "unwind"
    /\ frames[t] # <<>>
    /\ pc' = [pc EXCEPT ![t] = "run"]
    /\ ev' = Event(t, "catch", Top(t).type, Absent)
    /\ UNCHANGED <<tls, borrow, frames, result, left>>
    /\ UNCHANGED storeVars

\* A panic leaves an activation of with_thread_local_workspace: its RefMut is
\* dropped on the way.
Unwind(t) ==
    /\ pc[t] = "unwind"
    /\ frames[t] # <<>>
    /\ frames' = [frames EXCEPT ![t] = Pop(t)]
    /\ borrow' = [borrow EXCEPT ![Instance(t)] = DropRefMut(@)]
    /\ ev' = Event(t, "unwound", Top(t).type, Absent)
    /\ UNCHANGED <<tls, pc, result, left>>
    /\ UNCHANGED storeVars

\* The panic has left every activation and the thread's caller handles it.
Caught(t) ==
    /\ pc[t] = "unwind"
    /\ frames[t] = <<>>
    /\ pc' = [pc EXCEPT ![t] = "run"]
    /\ result' = [result EXCEPT ![t] = [kind |-> "panicked", val |-> Absent]]
    /\ ev' = Event(t, "caught", "A", Absent)
    /\ UNCHANGED <<tls, borrow, frames, left>>
    /\ UNCHANGED storeVars

NextTL ==
    \E t \in Threads :
        \/ WithThreadLocalWorkspace(t)
        \/ BodyWrite(t)
        \/ BodyReturn(t)
        \/ BodyPanic(t)
        \/ BodyCatch(t)
        \/ Unwind(t)
        \/ Caught(t)

SpecTL == Init /\ [][NextTL]_vars

\* ----------------------------------------------------- claims on Workspace
\* Entries of s holding a value of concrete type W.
EntriesOf(s, W) == {i \in 1..Len(s) : s[i].type = W}

HasEntry(s, W) == EntriesOf(s, W) # {}

ValueOf(s, W) == s[CHOOSE i \in EntriesOf(s, W) : TRUE].val

GetOps == {"get_or_insert_with", "get_or_default"}

Lookups == {"get_or_insert_with", "get_or_default", "try_get", "try_get_mut"}

\* C1 (uniqueness): in every reachable state of a store the entry sequence
\* holds at most one entry per concrete type, whatever sequence of
\* get_or_insert_with, get_or_default, try_get, try_get_mut and try_insert
\* calls led to it.
C1_Uniqueness ==
    \A W \in Types : Cardinality(EntriesOf(workspaces, W)) <= 1

\* A repeated get_or_default::<W>() on a store holding several entries.
C1_Witness ==
    /\ ret.op = "get_or_default"
    /\ ~ret.called
    /\ Len(workspaces) = Cardinality(Types)

\* C2 (persistence across calls): once a value has been written through a
\* reference to the W entry, every lookup of W (get_or_default,
\* get_or_insert_with, try_get, try_get_mut) observes the value last written,
\* whatever was done with other types in between.
C2_Persistence ==
    (ret.op \in Lookups /\ written[ret.type] # Absent)
        => ret.val = written[ret.type]

\* A get of W reads the value written to it after every type has been written,
\* some other type with a different value.
C2_Witness ==
    /\ ret.op \in GetOps
    /\ \A W \in Types : written[W] # Absent
    /\ \E W \in Types : written[W] # written[ret.type]
    /\ ret.val = MaxVal

\* C5 (first insert wins): try_insert::<W>(v) returns the stored v iff the
\* store had no W entry before the call; with a W entry present it returns
\* None and leaves the store as it was, and a get_or_default::<W>() that
\* follows reads the value the entry already had.
C5_FirstInsertWins ==
    [][/\ ret'.op = "try_insert" =>
            /\ (ret'.val # Absent) <=> ~HasEntry(workspaces, ret'.type)
            /\ HasEntry(workspaces, ret'.type) => workspaces' = workspaces
            /\ ~HasEntry(workspaces, ret'.type) =>
                  /\ ret'.val = ret'.arg
                  /\ HasEntry(workspaces', ret'.type)
                  /\ ValueOf(workspaces', ret'.type) = ret'.arg
       /\ (/\ ret.op = "try_insert"
           /\ ret.val = Absent
           /\ ret'.op = "get_or_default"
           /\ ret'.type = ret.type) =>
              /\ ret'.val = ValueOf(workspaces, ret.type)
              /\ ~ret'.called]_vars

\* A rejected try_insert of a value other than the stored one, followed by a
\* get_or_default that reads the stored one.
C5_Witness ==
    /\ ret.op = "try_insert"
    /\ ret.val = Absent
    /\ HasEntry(workspaces, ret.type)
    /\ ValueOf(workspaces, ret.type) # ret.arg
    /\ ValueOf(workspaces, ret.type) # Default(ret.type)
    /\ Len(workspaces) > 1

\* C6 (non-creating probes): try_get and try_get_mut for a type without an
\* entry return None and leave the entries unchanged, and a get_or_default of a
\* type without an entry creates it and reads the default value.
C6_NonCreatingProbes ==
    [][/\ (ret'.op \in {"try_get", "try_get_mut"} /\ ~HasEntry(workspaces, ret'.type)) =>
            /\ ret'.val = Absent
            /\ workspaces' = workspaces
       /\ (ret'.op = "get_or_default" /\ ~HasEntry(workspaces, ret'.type)) =>
            /\ ret'.called
            /\ ret'.val = Default(ret'.type)
            /\ ValueOf(workspaces', ret'.type) = Default(ret'.type)
            /\ Len(workspaces') = Len(workspaces) + 1]_vars

\* A probe that found nothing in a store that holds other entries.
C6_Witness ==
    /\ ret.op \in {"try_get", "try_get_mut"}
    /\ ret.val = Absent
    /\ ~HasEntry(workspaces, ret.type)
    /\ Len(workspaces) = Cardinality(Types) - 1

\* Whether the call recorded in r ended because its create closure unwound.
CreateUnwound(r) == r.op \in GetOps /\ r.called /\ r.panicked /\ r.arg = Panics

\* C8 as stated (create at most once in total): over any sequence of operations
\* on one store a creation function is invoked for W at most once. Violated: a
\* create that unwinds registers nothing, so the next call invokes create again.
C8_AtMostOnceInTotal ==
    \A W \in Types : createCalls[W] <= 1

\* C8 as amended (create once per missing entry): get_or_insert_with::<W>(create)
\* runs create once when the store has no W entry, the value it returns
\* becoming the entry, and not at all when it has one; once the store has a W
\* entry no creation function is invoked for W again.
C8_CreateOnce ==
    /\ [][ret'.op \in GetOps =>
            /\ ret'.called <=> ~HasEntry(workspaces, ret'.type)
            /\ createCalls'[ret'.type] =
                  createCalls[ret'.type] + (IF HasEntry(workspaces, ret'.type) THEN 0 ELSE 1)
            /\ (ret'.called /\ ~CreateUnwound(ret')) =>
                  /\ ret'.val = ret'.arg
                  /\ HasEntry(workspaces', ret'.type)
                  /\ ValueOf(workspaces', ret'.type) = ret'.arg
            /\ \A W \in Types \ {ret'.type} : createCalls'[W] = createCalls[W]]_vars
    /\ [][\A W \in Types :
            HasEntry(workspaces, W) => createCalls'[W] = createCalls[W]]_vars

\* get_or_insert_with finds the W entry that the second create invocation for W
\* made, after the first one unwound, and does not run its create.
C8_Witness ==
    /\ ret.op = "get_or_insert_with"
    /\ ~ret.called
    /\ ret.arg # ret.val
    /\ createCalls[ret.type] = 2
    /\ Len(workspaces) = Cardinality(Types)

\* C9 (identity precision): a lookup of A never matches an entry of another
\* type B, although all payloads have the same layout: without an A entry
\* try_get::<A>() returns None, and get_or_default::<A>() adds a default A and
\* leaves every other entry's value as it was.
C9_IdentityPrecision ==
    [][/\ (ret'.op \in {"try_get", "try_get_mut"} /\ ~HasEntry(workspaces, ret'.type)) =>
            ret'.val = Absent
       /\ (ret'.op \in Lookups /\ ~ret'.panicked /\ ret'.val # Absent) =>
            /\ HasEntry(workspaces', ret'.type)
            /\ ret'.val = ValueOf(workspaces', ret'.type)
       /\ (ret'.op = "get_or_default" /\ ~HasEntry(workspaces, ret'.type)) =>
            /\ ret'.val = Default(ret'.type)
            /\ \A B \in Types :
                  HasEntry(workspaces, B) =>
                      /\ HasEntry(workspaces', B)
                      /\ ValueOf(workspaces', B) = ValueOf(workspaces, B)]_vars

\* get_or_default::<A>() on a store whose only entries are of other types and
\* hold non-default values.
C9_Witness ==
    /\ ret.op = "get_or_default"
    /\ ret.called
    /\ Len(workspaces) = 2
    /\ \E B \in Types \ {ret.type} : HasEntry(workspaces, B) /\ ValueOf(workspaces, B) = MaxVal

\* ------------------------------------ claims on with_thread_local_workspace
CallKinds == {"entered", "rejected", "internal_error"}

\* The value a body expects in its W: the one the last body using W on this
\* thread wrote, the default before any has.
Expected(t, W) == IF left[t][W] = Absent THEN Default(W) ELSE left[t][W]

\* C3 (exclusivity): a with_thread_local_workspace call made by a thread while
\* one of its calls is still in its body ends in the panic of borrow_mut, for
\* the same type as the outer call or another one: no body is entered, and the
\* thread's store, guard and activations stay as they were.
C3_Exclusivity ==
    [][(ev'.kind \in CallKinds /\ frames[ev'.t] # <<>>) =>
            /\ ev'.kind = "rejected"
            /\ pc'[ev'.t] = "unwind"
            /\ frames' = frames
            /\ tls' = tls
            /\ borrow' = borrow]_vars

\* A nested call for another type than the outer call's is rejected.
C3_Witness ==
    /\ ev.kind = "rejected"
    /\ frames[ev.t] # <<>>
    /\ Top(ev.t).type # ev.type
    /\ pc[ev.t] = "unwind"

\* C4 (exclusivity release): whenever no call of a thread is in progress, be
\* it after a return or after a panic unwound the call, the guard of its
\* instance is Free, and the next call acquires it and enters its body.
C4_Release ==
    /\ [](\A t \in Threads : frames[t] = <<>> => borrow[t] = "Free")
    /\ [][(ev'.kind \in CallKinds /\ frames[ev'.t] = <<>>) =>
            /\ ev'.kind = "entered"
            /\ Len(frames'[ev'.t]) = 1
            /\ borrow'[ev'.t] = "Held"
            /\ pc'[ev'.t] = "run"]_vars

\* A body is entered by a thread whose previous call ended in a panic.
C4_Witness ==
    /\ ev.kind = "entered"
    /\ result[ev.t].kind = "panicked"
    /\ borrow[ev.t] = "Held"

\* C7 (what the body gets and what the caller gets): the body is handed the
\* one W entry of the thread's store, holding the default on the first access
\* and otherwise what the last body using W left in it, and the call returns
\* the body's return value.
C7_BodyArgumentAndResult ==
    [][/\ ev'.kind = "entered" =>
            /\ ev'.val = Expected(ev'.t, ev'.type)
            /\ Cardinality(EntriesOf(tls'[ev'.t], ev'.type)) = 1
            /\ At(tls'[ev'.t], frames'[ev'.t][Len(frames'[ev'.t])].idx) = Box(ev'.type, ev'.val)
       /\ ev'.kind = "returned" =>
            result'[ev'.t] = [kind |-> "returned", val |-> ev'.val]]_vars

\* A body gets back the non-default value written to its type before a body
\* for another type wrote another value.
C7_Witness ==
    /\ ev.kind = "entered"
    /\ ev.val = MaxVal
    /\ \E V \in TLTypes \ {ev.type} : left[ev.t][V] \notin {Absent, ev.val}

\* C10 (per-thread independence): a step of one thread changes no other
\* thread's store, guard, activations or control state; a call is rejected only
\* because of the calling thread's own activation; and a body sees what bodies
\* of its own thread wrote.
C10_ThreadIndependence ==
    [][/\ \A u \in Threads \ {ev'.t} :
            /\ tls'[u] = tls[u]
            /\ borrow'[u] = borrow[u]
            /\ frames'[u] = frames[u]
            /\ pc'[u] = pc[u]
            /\ result'[u] = result[u]
       /\ ev'.kind = "rejected" => frames[ev'.t] # <<>>
       /\ ev'.kind = "entered" => ev'.val = Expected(ev'.t, ev'.type)]_vars

\* A thread enters a body and reads the default while the other thread is in a
\* body of the same type and has written another value.
C10_Witness ==
    /\ ev.kind = "entered"
    /\ ev.val = Default(ev.type)
    /\ \E u \in Threads \ {ev.t} :
          /\ frames[u] # <<>>
          /\ Top(u).type = ev.type
          /\ left[u][ev.type] = MaxVal

\* --------------------------------------- claims on the order of the entries
\* C11 (recency promotion): right after a get_or_insert_with::<W> or
\* get_or_default::<W> call that returned, the W entry is the last element of
\* the entry sequence, whether it was created by the call or existed at any
\* position, and the returned reference designates that last element.
C11_RecencyPromotion ==
    (ret.op \in GetOps /\ ~ret.panicked) =>
        /\ Len(workspaces) > 0
        /\ workspaces[Len(workspaces)].type = ret.type
        /\ ref = Len(workspaces) - 1
        /\ ret.val = workspaces[Len(workspaces)].val

\* A get of an existing W holding MaxVal in a full store whose other entries
\* have been written the default through a reference.
C11_Witness ==
    /\ ret.op \in GetOps
    /\ ~ret.called
    /\ Len(workspaces) = Cardinality(Types)
    /\ ret.val = MaxVal
    /\ \A W \in Types \ {ret.type} : written[W] = Default(W)

\* C12 (try_get is a read-only probe): for every store and every type W, with
\* or without an entry, the entry sequence after try_get::<W>() is the one
\* before it, in contents and in order.
C12_TryGetReadOnly ==
    [][ret'.op = "try_get" => workspaces' = workspaces]_vars

\* try_get found an entry that is not the last one of a full store.
C12_Witness ==
    /\ ret.op = "try_get"
    /\ ret.val # Absent
    /\ Len(workspaces) = Cardinality(Types)
    /\ workspaces[Len(workspaces)].type # ret.type

C14_CreateFailureAtomic ==
    [][CreateUnwound(ret') =>
            /\ ~HasEntry(workspaces, ret'.type)
            /\ workspaces' = workspaces
            /\ ~HasEntry(workspaces', ret'.type)
            /\ ref' = NoIdx]_vars

\* A create closure unwound on a store that holds entries of the other types.
C14_Witness ==
    /\ CreateUnwound(ret)
    /\ Len(workspaces) = Cardinality(Types) - 1
    /\ \E i \in 1..Len(workspaces) : workspaces[i].val = MaxVal

\* C15 as stated (no entry after a failed first body): when the body of
\* with_thread_local_workspace::<W> unwinds during the first access to W on a
\* thread, the thread's store holds no W entry afterwards. Violated:
\* get_or_default registers the entry before the body runs.
C15_NoEntryAfterBodyUnwind ==
    [][(ev'.kind = "unwound" /\ frames[ev'.t][Len(frames[ev'.t])].fresh) =>
            ~HasEntry(tls'[ev'.t], ev'.type)]_vars

\* C15 as amended (the entry of a failed first body stays): when the body of
\* with_thread_local_workspace::<W> unwinds during the first access to W on a
\* thread, the W entry that get_or_default created before the body ran stays in
\* the thread's store, holding the last value the body wrote or else the
\* default, and the guard is released.
C15_EntryStaysAfterBodyUnwind ==
    [][(ev'.kind = "unwound" /\ frames[ev'.t][Len(frames[ev'.t])].fresh) =>
            /\ Cardinality(EntriesOf(tls'[ev'.t], ev'.type)) = 1
            /\ ValueOf(tls'[ev'.t], ev'.type) = Expected(ev'.t, ev'.type)
            /\ borrow'[ev'.t] = "Free"]_vars

\* The panic of the first body ever run on a thread, which had written MaxVal,
\* has unwound the call.
C15_Witness ==
    /\ ev.kind = "unwound"
    /\ frames[ev.t] = <<>>
    /\ result[ev.t].kind = "none"
    /\ tls[ev.t] = <<Box(ev.type, MaxVal)>>

\* C16 (the internal error is unreachable): in every reachable store, for every
\* type W, get_or_insert_with::<W> finds an entry of type W at the tail after
\* the swap, so the downcast succeeds and the expect() never panics.
C16_DowncastNeverFails ==
    /\ \A W \in Types, v \in Vals :
          LET r == GetOrInsertWith(workspaces, W, v)
          IN  /\ r.fault = "none"
              /\ At(r.workspaces, r.last).type = W
    /\ ret.op \in GetOps => ~ret.panicked

\* A get of an existing W has returned its value from a full store whose other
\* entries hold another value.
C16_Witness ==
    /\ ret.op \in GetOps
    /\ ~ret.called
    /\ ~ret.panicked
    /\ ret.val = Default(ret.type)
    /\ Len(workspaces) = Cardinality(Types)
    /\ \A i \in 1..(Len(workspaces) - 1) : workspaces[i].val = MaxVal

\* C17 (guard state machine): a thread's guard starts Free and is Held exactly
\* while one call of with_thread_local_workspace on the thread has acquired it
\* and not finished; the store lookup and the body's steps happen while it is
\* Held, and at most one activation per store holds a reference to an entry.
C17_GuardStateMachine ==
    /\ [](\A t \in Threads :
            /\ Len(frames[t]) <= 1
            /\ borrow[t] = "Held" <=> Len(frames[t]) = 1
            /\ borrow[t] \in {"Free", "Held"})
    /\ [][/\ \A t \in Threads : tls'[t] # tls[t] => borrow'[t] = "Held"
          /\ ev'.kind \in {"write", "returned", "body_panic", "catch", "unwound"} =>
                borrow[ev'.t] = "Held"
          /\ ev'.kind \in {"returned", "unwound"} => borrow'[ev'.t] = "Free"
          /\ ev'.kind = "entered" => (borrow[ev'.t] = "Free" /\ borrow'[ev'.t] = "Held")]_vars

\* A body went on after catching the panic of a rejected nested call: the
\* guard is still Held by the outer call, while the other thread holds its own.
C17_Witness ==
    /\ ev.kind = "catch"
    /\ borrow[ev.t] = "Held"
    /\ Len(frames[ev.t]) = 1
    /\ \A u \in Threads : borrow[u] = "Held"

\* C18 (a rejected call leaves the store alone): a rejected nested
\* with_thread_local_workspace::<V> call neither creates a V entry nor reorders
\* the entries, and the outer call's W entry keeps the value the outer body
\* wrote so far.
C18_RejectedCallNoEffect ==
    [][ev'.kind = "rejected" =>
            /\ tls' = tls
            /\ frames' = frames
            /\ left' = left
            /\ HasEntry(tls'[ev'.t], ev'.type) <=> HasEntry(tls[ev'.t], ev'.type)
            /\ LET outer == frames[ev'.t][Len(frames[ev'.t])]
               IN  At(tls'[ev'.t], outer.idx) =
                      Box(outer.type, Expected(ev'.t, outer.type))]_vars

\* A nested call for a type without an entry was rejected after the outer body
\* had written MaxVal.
C18_Witness ==
    /\ ev.kind = "rejected"
    /\ ~HasEntry(tls[ev.t], ev.type)
    /\ frames[ev.t] # <<>>
    /\ left[ev.t][Top(ev.t).type] = MaxVal
    /\ tls[ev.t] = <<Box(Top(ev.t).type, MaxVal)>>

\* The 1-based position of the W entry of s.
PositionOf(s, W) == CHOOSE i \in EntriesOf(s, W) : TRUE

\* C19 (repeated same-type access): a get_or_insert_with::<W> or
\* get_or_default::<W> call on a store whose tail entry is W, as right after
\* another such call for W, does not run create and leaves the entry sequence
\* as it is; a call for a W entry at another position exchanges that entry with
\* the former tail entry and leaves every other entry where it was.
C19_SameTypeIdempotent ==
    [][(ret'.op \in GetOps /\ HasEntry(workspaces, ret'.type)) =>
            LET p == PositionOf(workspaces, ret'.type)
                n == Len(workspaces)
            IN  /\ ~ret'.called
                /\ Len(workspaces') = n
                /\ workspaces'[n] = workspaces[p]
                /\ workspaces'[p] = workspaces[n]
                /\ \A k \in 1..n : k \notin {p, n} => workspaces'[k] = workspaces[k]
                /\ p = n => workspaces' = workspaces
                /\ (ret.op \in GetOps /\ ~ret.panicked /\ ret.type = ret'.type) => p = n]_vars

\* A get of an existing W in a store of three entries, each made by a create
\* closure; the middle entry holds the MaxVal written to it and W another value.
C19_Witness ==
    /\ ret.op \in GetOps
    /\ ~ret.called
    /\ Len(workspaces) = 3
    /\ workspaces[2].val = MaxVal
    /\ ret.val # MaxVal
    /\ written[workspaces[1].type] = Absent
    /\ written[workspaces[2].type] = MaxVal
    /\ createCalls[workspaces[1].type] = 1
    /\ createCalls[workspaces[2].type] = 1
    /\ createCalls[ret.type] = 1

\* C20 (index arithmetic in range): in every reachable store, for every type
\* and create outcome, when get_or_insert_with computes last as the length minus
\* one the sequence is not empty, also when the call started on an empty store,
\* and idx and last are positions of the sequence.
C20_IndicesInRange ==
    \A W \in Types, v \in Vals \cup {Panics} :
        LET r == GetOrInsertWith(workspaces, W, v)
        IN  r.fault # "create" =>
                /\ r.len >= 1
                /\ r.last = r.len - 1
                /\ r.idx \in 0..(r.len - 1)
                /\ r.last \in 0..(r.len - 1)
                /\ r.len = Len(r.workspaces)

\* A get that started on an empty store has pushed its entry and returned it,
\* after a create closure had unwound on the empty store.
C20_Witness ==
    /\ ret.op \in GetOps
    /\ ret.called
    /\ ~ret.panicked
    /\ Len(workspaces) = 1
    /\ ref = 0
    /\ createCalls[ret.type] = 2

====
